---- MODULE Spec2Model ----
(***************************************************************************)
(* Model of dafgen.py: the DAF (delayed auditory feedback) generator.      *)
(*                                                                         *)
(* Worker (a QThread) owns the ring buffer _ring, the cursor _pring and    *)
(* the resize timestamp _rscBuffer.  Its run() executes _genDAF on the     *)
(* worker thread; its slot ringSizeChanged is called on the GUI thread     *)
(* (the Worker object lives in the thread that created it).  MainApp       *)
(* starts a session (_startCapture) and stops it (_stopCapture).           *)
(*                                                                         *)
(* Time is in milliseconds.  A chunk is identified by the number of the    *)
(* capture read that produced it (1, 2, ...); None is 0.  Python lists are *)
(* 0-based, TLA+ sequences 1-based: _ring[i] is ring[i + 1].               *)
(*                                                                         *)
(* Four specifications share the state:                                    *)
(*   Spec         every handler and every loop iteration runs as a whole   *)
(*                (no interleaving inside an iteration or a resize), ring  *)
(*                sizes are 1..MaxSize and a session starts after the      *)
(*                thread of the one before has ended;                      *)
(*   SpecThreads  the worker thread and the GUI thread interleave at the   *)
(*                granularity of the source's statements;                  *)
(*   SpecApp      whole operations again, with every ring size a request   *)
(*                can carry (also 0 and -1), starts that fail, starts      *)
(*                next to a thread still running, and quit;                *)
(*   SpecDelay    the delay slider and the ring size computed from it.     *)
(***************************************************************************)
EXTENDS Integers, Sequences, FiniteSets

\* ---------------------------------------------------------------- bounds
\* ring sizes requested by start and by ringSizeChanged are 1..MaxSize
MaxSize == 4
\* capture reads per session
MaxChunks == 5
\* capture reads per session when the threads run statement by statement
MaxThreadChunks == 2
\* last clock reading, in ms
MaxTime == 30
\* the largest ring size requested in the window's whole life (SpecApp)
MaxAppSize == 1
\* threads of earlier sessions still running next to the current one
MaxOldThreads == 1

\* ------------------------------------------------------------- constants
\* the empty slot ([ None ] * sizeDiff)
None == 0
\* MainApp._RATE and MainApp._BUFFERSIZE
RATE == 44100
BUFFERSIZE == 100
\* the delay slider's range in ms, the two numbers of _updateDelay's test
DelayMin == 50
DelayMax == 200
\* ringSizeChanged: 0.01 s, in ms
Throttle == 10

VARIABLES
    thread,           \* the Worker's thread: "none" (no Worker yet), "running",
                      \* "finished" (run() returned), "terminated", or the
                      \* exception that ended run(): "IndexError", "TypeError",
                      \* "ZeroDivisionError"
    ring,             \* Worker._ring
    pring,            \* Worker._pring
    rscBuffer,        \* Worker._rscBuffer
    start,            \* _genDAF's local start
    pc,               \* the worker thread's position in _genDAF
    gui,              \* the GUI thread's position in ringSizeChanged, and its locals
    streamActive,     \* what _streamIn.is_active() answers
    termPending,      \* terminate() was called and the thread is not ended yet
    startButton,      \* startButton.isEnabled()
    stopButton,       \* stopButton.isEnabled()
    actualDelayEdit,  \* the text of actualDelayEdit in ms; -1 when cleared
    now,              \* what perf_counter() reads
    captured,         \* number of _streamIn.read() calls of the session
    played,           \* the chunks given to _streamOut.write(), in order
    lastApplied,      \* history: clock reading of the session's last applied resize, -1 if none
    ioAfterStop,      \* history: a stream read or write happened after _stopCapture returned
    last,             \* history: the last operation if it was a start, a whole loop
                      \* iteration or a whole ringSizeChanged, with its input and
                      \* the ring and cursor before it (for a start: those of the
                      \* Worker before, and whether that one was resized)
    meas,             \* history: the whole iterations since start was recorded, and
                      \* whether a resize has changed the ring, or moved the cursor,
                      \* since
    oldLive,          \* threads of earlier Workers that are still running
    strayStreams,     \* a stream was opened by a start that made no Worker for it
    app               \* "running", or "quit" after QApplication.quit()

vars == <<thread, ring, pring, rscBuffer, start, pc, gui, streamActive, termPending,
          startButton, stopButton, actualDelayEdit, now, captured, played,
          lastApplied, ioAfterStop, last, meas, oldLive, strayStreams, app>>

\* what only MainApp's life cycle changes
appVars == <<oldLive, strayStreams, app>>

\* ------------------------------------------------------ Python operations
Min(a, b) == IF a < b THEN a ELSE b

\* s[a:b] for 0 <= a, 0 <= b (Python clamps both to len(s))
PySlice(s, a, b) == SubSeq(s, Min(a, Len(s)) + 1, Min(b, Len(s)))

\* [ None ] * n
Nones(n) == [i \in 1..n |-> None]

\* _incPRing: the new value of _pring
incPRingNoWrap(p, num, len) == p + num
incPRingStuck(p, num, len) == p % len
incPRing(p, num, len) == (p + num) % len

\* _decPRing: the new value of _pring
decPRing(p, num, len) == incPRing(p, -num, len)

\* _resizeRing, sizeDiff > 0
growRingSkipTwo(r, p, sizeDiff) ==
    PySlice(r, 0, p) \o Nones(sizeDiff) \o PySlice(r, p + 2, Len(r))
growRingKeepTwice(r, p, sizeDiff) ==
    PySlice(r, 0, p + 1) \o Nones(sizeDiff) \o PySlice(r, p, Len(r))
growRingAtFront(r, p, sizeDiff) ==
    Nones(sizeDiff) \o PySlice(r, 0, p) \o PySlice(r, p + 1, Len(r))
growRing(r, p, sizeDiff) ==
    PySlice(r, 0, p) \o Nones(sizeDiff) \o PySlice(r, p + 1, Len(r))

\* _resizeRing, sizeDiff < 0 and spaceAfter > sizeDiff
shrinkAfter(r, p, sizeDiff) ==
    PySlice(r, 0, p) \o PySlice(r, p + sizeDiff, Len(r))

\* _resizeRing, sizeDiff < 0 and spaceAfter <= sizeDiff
shrinkBefore(r, p, skipBefore) == PySlice(r, skipBefore, p)

\* _resizeRing as a whole: the ring and the cursor it leaves, and the exception
\* it raises ("" for none): _decPRing divides by len(_ring), which line 128 has
\* already assigned
resizeRing(r, p, ringSize) ==
    LET sizeDiff == ringSize - Len(r) IN
    IF sizeDiff > 0 THEN [ring |-> growRing(r, p, sizeDiff), pring |-> p, err |-> ""]
    ELSE IF sizeDiff < 0 THEN
        LET d == -sizeDiff
            spaceAfter == Len(r) - p
        IN  IF spaceAfter > d
            THEN [ring |-> shrinkAfter(r, p, d), pring |-> p, err |-> ""]
            ELSE LET skipBefore == d - spaceAfter
                     nr == shrinkBefore(r, p, skipBefore)
                 IN  IF Len(nr) = 0
                     THEN [ring |-> nr, pring |-> p, err |-> "ZeroDivisionError"]
                     ELSE [ring |-> nr, pring |-> decPRing(p, skipBefore, Len(nr)),
                           err |-> ""]
    ELSE [ring |-> r, pring |-> p, err |-> ""]

\* _genDAF lines 140-141: the value of start after them
startTimingAnywhere(st, p, ts) == IF st = 0 THEN ts ELSE st
startTiming(st, p, ts) == IF st = 0 /\ p = 0 THEN ts ELSE st

\* _genDAF line 150: the delay is emitted
emits(st, p) == st # 0 /\ p = 0

\* ringSizeChanged's test: the request at clock reading ts is dropped
tooSoon(rsc, ts) == rsc > ts - Throttle

\* ------------------------------------------------------------- the state
NoOp == [op |-> "other", size |-> 0, applied |-> FALSE, recent |-> FALSE,
         out |-> None, ring0 |-> <<>>, pring0 |-> 0, err |-> "", ms |-> 0,
         emit |-> FALSE, iters |-> 0, resized |-> FALSE, moved |-> FALSE]

NoMeas == [iters |-> 0, resized |-> FALSE, moved |-> FALSE]

GuiIdle == [pc |-> "idle", ringSize |-> 0, ts |-> 0, sizeDiff |-> 0, skipBefore |-> 0]

Init ==
    /\ thread = "none"
    /\ ring = <<>>
    /\ pring = 0
    /\ rscBuffer = 0
    /\ start = 0
    /\ pc = "L138"
    /\ gui = GuiIdle
    /\ streamActive = FALSE
    /\ termPending = FALSE
    /\ startButton = TRUE
    /\ stopButton = FALSE
    /\ actualDelayEdit = -1
    /\ now = 0
    /\ captured = 0
    /\ played = <<>>
    /\ lastApplied = -1
    /\ ioAfterStop = FALSE
    /\ last = NoOp
    /\ meas = NoMeas
    /\ oldLive = 0
    /\ strayStreams = FALSE
    /\ app = "running"

\* ------------------------------------ actions the specifications share
\* the clock moves on
Tick ==
    /\ \E d \in {Throttle \div 2, Throttle} :
          /\ now + d <= MaxTime
          /\ now' = now + d
    /\ last' = NoOp
    /\ UNCHANGED <<thread, ring, pring, rscBuffer, start, pc, gui, streamActive,
                   termPending, startButton, stopButton, actualDelayEdit, captured,
                   played, lastApplied, ioAfterStop>>
    /\ UNCHANGED <<meas, oldLive, strayStreams, app>>

\* the capture stream stops being active
StreamDies ==
    /\ streamActive
    /\ streamActive' = FALSE
    /\ last' = NoOp
    /\ UNCHANGED <<thread, ring, pring, rscBuffer, start, pc, gui, termPending,
                   startButton, stopButton, actualDelayEdit, now, captured, played,
                   lastApplied, ioAfterStop>>
    /\ UNCHANGED <<meas, oldLive, strayStreams, app>>

\* Worker.__init__ for a new Worker, whatever ring r and cursor p the Worker
\* before it has: _ring and _pring start from the class attributes [] and 0
\* (lines 42-43), which no method assigns or changes in place
newWorkerShared(r, p, ringSize) == resizeRing(r, p, ringSize)
newWorker(r, p, ringSize) == resizeRing(<<>>, 0, ringSize)

\* MainApp._startCapture, both streams opened, for a ring size out of sizes: a
\* new Worker is made and started.  A Worker.__init__ that raises leaves the
\* two streams open and everything else as it was.  The Worker before this
\* one and its thread, if it still runs, are followed no further than by
\* oldLive.
StartCaptureOf(sizes) ==
    /\ startButton
    /\ gui.pc = "idle"
    /\ \E ringSize \in sizes :
          LET w == newWorker(ring, pring, ringSize) IN
          IF w.err # ""
          THEN /\ strayStreams' = TRUE
               /\ last' = [NoOp EXCEPT !.op = "startCapture", !.size = ringSize,
                                       !.err = w.err]
               /\ UNCHANGED <<thread, ring, pring, rscBuffer, start, pc, streamActive,
                              termPending, startButton, stopButton, captured, played,
                              lastApplied, ioAfterStop, meas, oldLive>>
          ELSE /\ ring' = w.ring
               /\ pring' = w.pring
               /\ last' = [NoOp EXCEPT !.op = "startCapture", !.size = ringSize,
                                       !.ring0 = ring, !.pring0 = pring,
                                       !.resized = (lastApplied >= 0)]
               /\ rscBuffer' = 0
               /\ start' = 0
               /\ pc' = "L138"
               /\ thread' = "running"
               /\ streamActive' = TRUE
               /\ termPending' = FALSE
               /\ startButton' = FALSE
               /\ stopButton' = TRUE
               /\ captured' = 0
               /\ played' = <<>>
               /\ lastApplied' = -1
               /\ ioAfterStop' = FALSE
               /\ meas' = NoMeas
               /\ oldLive' = IF thread = "running" THEN oldLive + 1 ELSE oldLive
               /\ UNCHANGED strayStreams
    /\ UNCHANGED <<gui, actualDelayEdit, now, app>>

\* a session with a ring of 1..MaxSize slots, started once the thread of the
\* session before it has ended
StartCapture ==
    /\ thread # "running"
    /\ StartCaptureOf(1..MaxSize)

\* MainApp._stopCapture with a Worker present: terminate() asks for the thread
\* to be ended and returns
StopCapture ==
    /\ thread # "none"
    /\ gui.pc = "idle"
    /\ termPending' = (thread = "running")
    /\ actualDelayEdit' = -1
    /\ startButton' = TRUE
    /\ stopButton' = FALSE
    /\ last' = NoOp
    /\ UNCHANGED <<thread, ring, pring, rscBuffer, start, pc, gui, streamActive, now,
                   captured, played, lastApplied, ioAfterStop>>
    /\ UNCHANGED <<meas, oldLive, strayStreams, app>>

\* the thread asked to terminate is ended, wherever it is
Kill ==
    /\ termPending
    /\ thread = "running"
    /\ thread' = "terminated"
    /\ termPending' = FALSE
    /\ last' = NoOp
    /\ UNCHANGED <<ring, pring, rscBuffer, start, pc, gui, streamActive, startButton,
                   stopButton, actualDelayEdit, now, captured, played, lastApplied,
                   ioAfterStop>>
    /\ UNCHANGED <<meas, oldLive, strayStreams, app>>

\* ------------------------------------------------- Spec: whole operations
\* _genDAF: the loop ends, _streamIn.is_active() being false
LoopExit ==
    /\ thread = "running"
    /\ pc = "L138"
    /\ ~streamActive
    /\ thread' = "finished"
    /\ termPending' = FALSE
    /\ last' = NoOp
    /\ UNCHANGED <<ring, pring, rscBuffer, start, pc, gui, streamActive, startButton,
                   stopButton, actualDelayEdit, now, captured, played, lastApplied,
                   ioAfterStop>>
    /\ UNCHANGED <<meas, oldLive, strayStreams, app>>

\* _genDAF: one whole iteration of the loop
GenDAF ==
    /\ thread = "running"
    /\ pc = "L138"
    /\ streamActive
    /\ captured < MaxChunks
    /\ IF pring >= Len(ring)
       THEN \* line 143 raises IndexError and run() ends
            /\ thread' = "IndexError"
            /\ last' = [NoOp EXCEPT !.op = "genDAF", !.err = "IndexError"]
            /\ UNCHANGED <<played, captured, ring, pring, start, actualDelayEdit,
                           ioAfterStop, meas>>
       ELSE LET start1 == startTiming(start, pring, now)
                out == ring[pring + 1]
                pring1 == incPRing(pring, 1, Len(ring))
                emit == emits(start1, pring1)
                iters1 == IF start1 # 0 THEN meas.iters + 1 ELSE 0
            IN  /\ played' = IF out # None THEN Append(played, out) ELSE played
                /\ captured' = captured + 1
                /\ ring' = [ring EXCEPT ![pring + 1] = captured + 1]
                /\ pring' = pring1
                /\ start' = IF emit THEN 0 ELSE start1
                /\ actualDelayEdit' = IF emit THEN now - start1 ELSE actualDelayEdit
                /\ meas' = IF emit \/ start1 = 0 THEN NoMeas
                           ELSE [meas EXCEPT !.iters = iters1]
                /\ last' = [NoOp EXCEPT !.op = "genDAF", !.out = out, !.ring0 = ring,
                                        !.pring0 = pring, !.emit = emit,
                                        !.iters = iters1, !.resized = meas.resized,
                                        !.moved = meas.moved]
                /\ ioAfterStop' = (ioAfterStop \/ termPending)
                /\ thread' = thread
    /\ UNCHANGED <<rscBuffer, pc, gui, streamActive, termPending, startButton,
                   stopButton, now, lastApplied>>
    /\ UNCHANGED appVars

\* Worker.ringSizeChanged as a whole, for a ring size out of sizes
RingSizeChangedOf(sizes) ==
    /\ thread # "none"
    /\ gui.pc = "idle"
    /\ \E ringSize \in sizes :
          LET ts == now
              drop == tooSoon(rscBuffer, ts)
              w == resizeRing(ring, pring, ringSize)
          IN  /\ ring' = IF drop THEN ring ELSE w.ring
              /\ pring' = IF drop THEN pring ELSE w.pring
              /\ rscBuffer' = IF drop \/ w.err # "" THEN rscBuffer ELSE ts
              /\ lastApplied' = IF drop \/ w.err # "" THEN lastApplied ELSE ts
              /\ meas' = IF drop \/ start = 0 THEN meas
                         ELSE [meas EXCEPT
                                 !.resized = @ \/ Len(w.ring) # Len(ring),
                                 !.moved = @ \/ w.pring # pring]
              /\ last' = [NoOp EXCEPT
                            !.op = "ringSizeChanged", !.size = ringSize,
                            !.applied = ~drop,
                            !.recent = (lastApplied >= 0 /\ ts - lastApplied < Throttle),
                            !.ring0 = ring, !.pring0 = pring,
                            !.err = IF drop THEN "" ELSE w.err]
    /\ UNCHANGED <<thread, start, pc, gui, streamActive, termPending, startButton,
                   stopButton, actualDelayEdit, now, captured, played, ioAfterStop>>
    /\ UNCHANGED appVars

RingSizeChanged == RingSizeChangedOf(1..MaxSize)

Next ==
    \/ Tick
    \/ StreamDies
    \/ StartCapture
    \/ StopCapture
    \/ Kill
    \/ LoopExit
    \/ GenDAF
    \/ RingSizeChanged

Spec == Init /\ [][Next]_vars


\* ------------------------------------- SpecApp: the window's whole life
\* Every ring size a request can carry, the ones below 1 included, a start
\* that fails, a start while the thread of the session before still runs, and
\* quit.

\* the ring sizes asked for: -1, 0 and 1..MaxAppSize
AppSizes == {0 - 1} \cup (0..MaxAppSize)

\* _startCapture for any ring size, also while the thread that was asked to
\* terminate still runs
StartCaptureAny ==
    /\ thread = "running" => oldLive < MaxOldThreads
    /\ StartCaptureOf(AppSizes)

\* _startCapture, lines 207-227: opening the capture stream ("in") or, after
\* it, the playback stream ("out") raises OSError; the handler shows the
\* message and returns
StartFails ==
    /\ startButton
    /\ gui.pc = "idle"
    /\ \E failed \in {"in", "out"} :
          /\ strayStreams' = (strayStreams \/ failed = "out")
          /\ last' = [NoOp EXCEPT !.op = "startFails", !.err = "OSError"]
    /\ UNCHANGED <<thread, ring, pring, rscBuffer, start, pc, gui, streamActive,
                   termPending, startButton, stopButton, actualDelayEdit, now,
                   captured, played, lastApplied, ioAfterStop, meas, oldLive, app>>

\* the thread of an earlier session, asked to terminate, is ended
OldThreadEnds ==
    /\ oldLive > 0
    /\ oldLive' = oldLive - 1
    /\ last' = NoOp
    /\ UNCHANGED <<thread, ring, pring, rscBuffer, start, pc, gui, streamActive,
                   termPending, startButton, stopButton, actualDelayEdit, now,
                   captured, played, lastApplied, ioAfterStop, meas, strayStreams,
                   app>>

\* MainApp._quit (quitButton, closeEvent): _stopCapture(), then
\* QApplication.quit().  Without a Worker, line 239 reads an attribute that
\* __init__ never set and raises AttributeError, and nothing after it runs.
Quit ==
    /\ gui.pc = "idle"
    /\ IF thread = "none"
       THEN /\ last' = [NoOp EXCEPT !.op = "quit", !.err = "AttributeError"]
            /\ UNCHANGED <<termPending, actualDelayEdit, startButton, stopButton,
                           app>>
       ELSE /\ termPending' = (thread = "running")
            /\ actualDelayEdit' = -1
            /\ startButton' = TRUE
            /\ stopButton' = FALSE
            /\ app' = "quit"
            /\ last' = [NoOp EXCEPT !.op = "quit"]
    /\ UNCHANGED <<thread, ring, pring, rscBuffer, start, pc, gui, streamActive, now,
                   captured, played, lastApplied, ioAfterStop, meas, oldLive,
                   strayStreams>>

RingSizeChangedAny == RingSizeChangedOf(AppSizes)

\* after QApplication.quit() the event loop has ended and the process exits
Alive == app = "running"

NextApp ==
    \/ Alive /\ Tick
    \/ Alive /\ StreamDies
    \/ Alive /\ StartCaptureAny
    \/ Alive /\ StartFails
    \/ Alive /\ StopCapture
    \/ Alive /\ Quit
    \/ Alive /\ Kill
    \/ Alive /\ OldThreadEnds
    \/ Alive /\ LoopExit
    \/ Alive /\ GenDAF
    \/ Alive /\ RingSizeChangedAny

SpecApp == Init /\ [][NextApp]_vars


\* ------------------------------------- SpecDelay: the delay slider
\* Python's round() of the quotient n / d (n >= 0, d > 0): to the nearest
\* integer, a tie to the even one
pyRound(n, d) ==
    LET q == n \div d
        r == n % d
    IN  IF 2 * r < d THEN q
        ELSE IF 2 * r > d THEN q + 1
        ELSE IF q % 2 = 0 THEN q ELSE q + 1

\* _BUFFERSPERSECOND = _RATE / _BUFFERSIZE, which is 441.0 exactly
BUFFERSPERSECOND == RATE \div BUFFERSIZE

\* MainApp._calcRingSize: floor(round(ms / 1000 * _BUFFERSPERSECOND)); round()
\* gives an int, which floor() leaves as it is
calcRingSize(ms) == pyRound(ms * BUFFERSPERSECOND, 1000)

\* _updateDelay, line 197: if 50 >= v >= 200: return
delayIgnored(v) == DelayMin >= v /\ v >= DelayMax

\* MainApp._updateDelay while no Worker is connected to _ringSizeSignal: the
\* slider is at v, the ring size is computed and the signal is emitted to
\* nobody.  (With a Worker connected the emission is its ringSizeChanged.)
UpdateDelay ==
    /\ thread = "none"
    /\ \E v \in DelayMin..DelayMax :
          /\ ~delayIgnored(v)
          /\ last' = [NoOp EXCEPT !.op = "updateDelay", !.ms = v,
                                  !.size = calcRingSize(v)]
    /\ UNCHANGED <<thread, ring, pring, rscBuffer, start, pc, gui, streamActive,
                   termPending, startButton, stopButton, actualDelayEdit, now,
                   captured, played, lastApplied, ioAfterStop, meas, oldLive,
                   strayStreams, app>>

NextDelay == UpdateDelay

SpecDelay == Init /\ [][NextDelay]_vars


\* ------------------------------------- SpecThreads: statement by statement
\* The worker thread runs _genDAF while the GUI thread runs ringSizeChanged;
\* nothing in the source orders the two, so either may run its next statement.


\* line 138: while self._streamIn.is_active()
W_L138 ==
    /\ thread = "running" /\ pc = "L138"
    /\ streamActive
    /\ captured < MaxThreadChunks
    /\ pc' = "L140"
    /\ last' = NoOp
    /\ UNCHANGED <<thread, ring, pring, rscBuffer, start, gui, streamActive,
                   termPending, startButton, stopButton, actualDelayEdit, now,
                   captured, played, lastApplied, ioAfterStop>>
    /\ UNCHANGED <<meas, oldLive, strayStreams, app>>

\* lines 140-141: if not start and self._pring == 0: start = perf_counter()
W_L140 ==
    /\ thread = "running" /\ pc = "L140"
    /\ start' = startTiming(start, pring, now)
    /\ pc' = "L143"
    /\ last' = NoOp
    /\ UNCHANGED <<thread, ring, pring, rscBuffer, gui, streamActive, termPending,
                   startButton, stopButton, actualDelayEdit, now, captured, played,
                   lastApplied, ioAfterStop>>
    /\ UNCHANGED <<meas, oldLive, strayStreams, app>>

\* line 143: if self._ring[self._pring] != None
W_L143 ==
    /\ thread = "running" /\ pc = "L143"
    /\ IF pring >= Len(ring)
       THEN thread' = "IndexError" /\ pc' = pc
       ELSE /\ thread' = thread
            /\ pc' = IF ring[pring + 1] # None THEN "L144" ELSE "L146"
    /\ last' = NoOp
    /\ UNCHANGED <<ring, pring, rscBuffer, start, gui, streamActive, termPending,
                   startButton, stopButton, actualDelayEdit, now, captured, played,
                   lastApplied, ioAfterStop>>
    /\ UNCHANGED <<meas, oldLive, strayStreams, app>>

\* line 144: self._streamOut.write(self._ring[self._pring])
W_L144 ==
    /\ thread = "running" /\ pc = "L144"
    /\ IF pring >= Len(ring)
       THEN thread' = "IndexError" /\ pc' = pc /\ UNCHANGED <<played, ioAfterStop>>
       ELSE IF ring[pring + 1] = None
       THEN thread' = "TypeError" /\ pc' = pc /\ UNCHANGED <<played, ioAfterStop>>
       ELSE /\ thread' = thread
            /\ played' = Append(played, ring[pring + 1])
            /\ ioAfterStop' = (ioAfterStop \/ termPending)
            /\ pc' = "L146"
    /\ last' = NoOp
    /\ UNCHANGED <<ring, pring, rscBuffer, start, gui, streamActive, termPending,
                   startButton, stopButton, actualDelayEdit, now, captured,
                   lastApplied>>
    /\ UNCHANGED <<meas, oldLive, strayStreams, app>>

\* line 146, right-hand side: self._streamIn.read(self._bufferSize)
W_L146 ==
    /\ thread = "running" /\ pc = "L146"
    /\ captured' = captured + 1
    /\ ioAfterStop' = (ioAfterStop \/ termPending)
    /\ pc' = "L146s"
    /\ last' = NoOp
    /\ UNCHANGED <<thread, ring, pring, rscBuffer, start, gui, streamActive,
                   termPending, startButton, stopButton, actualDelayEdit, now, played,
                   lastApplied>>
    /\ UNCHANGED <<meas, oldLive, strayStreams, app>>

\* line 146, the store: self._ring[self._pring] = <the chunk read>
W_L146s ==
    /\ thread = "running" /\ pc = "L146s"
    /\ IF pring >= Len(ring)
       THEN thread' = "IndexError" /\ pc' = pc /\ ring' = ring
       ELSE /\ thread' = thread
            /\ ring' = [ring EXCEPT ![pring + 1] = captured]
            /\ pc' = "L148"
    /\ last' = NoOp
    /\ UNCHANGED <<pring, rscBuffer, start, gui, streamActive, termPending,
                   startButton, stopButton, actualDelayEdit, now, captured, played,
                   lastApplied, ioAfterStop>>
    /\ UNCHANGED <<meas, oldLive, strayStreams, app>>

\* line 148: self._incPRing(1)
W_L148 ==
    /\ thread = "running" /\ pc = "L148"
    /\ IF Len(ring) = 0
       THEN thread' = "ZeroDivisionError" /\ pc' = pc /\ pring' = pring
       ELSE /\ thread' = thread
            /\ pring' = incPRing(pring, 1, Len(ring))
            /\ pc' = "L150"
    /\ last' = NoOp
    /\ UNCHANGED <<ring, rscBuffer, start, gui, streamActive, termPending,
                   startButton, stopButton, actualDelayEdit, now, captured, played,
                   lastApplied, ioAfterStop>>
    /\ UNCHANGED <<meas, oldLive, strayStreams, app>>

\* lines 150-155: if start and self._pring == 0: emit the delay, start = 0
W_L150 ==
    /\ thread = "running" /\ pc = "L150"
    /\ LET emit == emits(start, pring) IN
          /\ actualDelayEdit' = IF emit THEN now - start ELSE actualDelayEdit
          /\ start' = IF emit THEN 0 ELSE start
    /\ pc' = "L138"
    /\ last' = NoOp
    /\ UNCHANGED <<thread, ring, pring, rscBuffer, gui, streamActive, termPending,
                   startButton, stopButton, now, captured, played, lastApplied,
                   ioAfterStop>>
    /\ UNCHANGED <<meas, oldLive, strayStreams, app>>

\* lines 87-90: ts = perf_counter(); bail if _rscBuffer > ts - 0.01
G_L87 ==
    /\ thread # "none"
    /\ gui.pc = "idle"
    /\ \E ringSize \in 1..MaxSize :
          gui' = IF tooSoon(rscBuffer, now) THEN GuiIdle
                 ELSE [GuiIdle EXCEPT !.pc = "L106", !.ringSize = ringSize, !.ts = now]
    /\ last' = NoOp
    /\ UNCHANGED <<thread, ring, pring, rscBuffer, start, pc, streamActive,
                   termPending, startButton, stopButton, actualDelayEdit, now,
                   captured, played, lastApplied, ioAfterStop>>
    /\ UNCHANGED <<meas, oldLive, strayStreams, app>>

\* lines 106-114: sizeDiff = ringSize - len(self._ring), and the branch taken
G_L106 ==
    /\ gui.pc = "L106"
    /\ LET sizeDiff == gui.ringSize - Len(ring) IN
          gui' = IF sizeDiff > 0 THEN [gui EXCEPT !.pc = "L110", !.sizeDiff = sizeDiff]
                 ELSE IF sizeDiff < 0
                 THEN [gui EXCEPT !.pc = "L116", !.sizeDiff = -sizeDiff]
                 ELSE [gui EXCEPT !.pc = "L95"]
    /\ last' = NoOp
    /\ UNCHANGED <<thread, ring, pring, rscBuffer, start, pc, streamActive,
                   termPending, startButton, stopButton, actualDelayEdit, now,
                   captured, played, lastApplied, ioAfterStop>>
    /\ UNCHANGED <<meas, oldLive, strayStreams, app>>

\* line 110: the growing slice
G_L110 ==
    /\ gui.pc = "L110"
    /\ ring' = growRing(ring, pring, gui.sizeDiff)
    /\ gui' = [gui EXCEPT !.pc = "L95"]
    /\ last' = NoOp
    /\ UNCHANGED <<thread, pring, rscBuffer, start, pc, streamActive, termPending,
                   startButton, stopButton, actualDelayEdit, now, captured, played,
                   lastApplied, ioAfterStop>>
    /\ UNCHANGED <<meas, oldLive, strayStreams, app>>

\* lines 116-126: spaceAfter = len(self._ring) - self._pring, and the branch taken
G_L116 ==
    /\ gui.pc = "L116"
    /\ LET spaceAfter == Len(ring) - pring IN
          gui' = IF spaceAfter > gui.sizeDiff
                 THEN [gui EXCEPT !.pc = "L121"]
                 ELSE [gui EXCEPT !.pc = "L128", !.skipBefore = gui.sizeDiff - spaceAfter]
    /\ last' = NoOp
    /\ UNCHANGED <<thread, ring, pring, rscBuffer, start, pc, streamActive,
                   termPending, startButton, stopButton, actualDelayEdit, now,
                   captured, played, lastApplied, ioAfterStop>>
    /\ UNCHANGED <<meas, oldLive, strayStreams, app>>

\* lines 119-121: the slice that removes slots from the cursor on
G_L121 ==
    /\ gui.pc = "L121"
    /\ ring' = shrinkAfter(ring, pring, gui.sizeDiff)
    /\ gui' = [gui EXCEPT !.pc = "L95"]
    /\ last' = NoOp
    /\ UNCHANGED <<thread, pring, rscBuffer, start, pc, streamActive, termPending,
                   startButton, stopButton, actualDelayEdit, now, captured, played,
                   lastApplied, ioAfterStop>>
    /\ UNCHANGED <<meas, oldLive, strayStreams, app>>

\* line 128: the slice that keeps _ring[skipBefore:_pring]
G_L128 ==
    /\ gui.pc = "L128"
    /\ ring' = shrinkBefore(ring, pring, gui.skipBefore)
    /\ gui' = [gui EXCEPT !.pc = "L130"]
    /\ last' = NoOp
    /\ UNCHANGED <<thread, pring, rscBuffer, start, pc, streamActive, termPending,
                   startButton, stopButton, actualDelayEdit, now, captured, played,
                   lastApplied, ioAfterStop>>
    /\ UNCHANGED <<meas, oldLive, strayStreams, app>>

\* line 130: self._decPRing(skipBefore); a ZeroDivisionError ends the handler
G_L130 ==
    /\ gui.pc = "L130"
    /\ IF Len(ring) = 0
       THEN pring' = pring /\ gui' = GuiIdle
       ELSE /\ pring' = decPRing(pring, gui.skipBefore, Len(ring))
            /\ gui' = [gui EXCEPT !.pc = "L95"]
    /\ last' = NoOp
    /\ UNCHANGED <<thread, ring, rscBuffer, start, pc, streamActive, termPending,
                   startButton, stopButton, actualDelayEdit, now, captured, played,
                   lastApplied, ioAfterStop>>
    /\ UNCHANGED <<meas, oldLive, strayStreams, app>>

\* line 95: self._rscBuffer = ts
G_L95 ==
    /\ gui.pc = "L95"
    /\ rscBuffer' = gui.ts
    /\ lastApplied' = gui.ts
    /\ gui' = GuiIdle
    /\ last' = NoOp
    /\ UNCHANGED <<thread, ring, pring, start, pc, streamActive, termPending,
                   startButton, stopButton, actualDelayEdit, now, captured, played,
                   ioAfterStop>>
    /\ UNCHANGED <<meas, oldLive, strayStreams, app>>

NextThreads ==
    \/ Tick
    \/ StreamDies
    \/ StartCapture
    \/ StopCapture
    \/ Kill
    \/ LoopExit
    \/ W_L138
    \/ W_L140
    \/ W_L143
    \/ W_L144
    \/ W_L146
    \/ W_L146s
    \/ W_L148
    \/ W_L150
    \/ G_L87
    \/ G_L106
    \/ G_L110
    \/ G_L116
    \/ G_L121
    \/ G_L128
    \/ G_L130
    \/ G_L95

SpecThreads == Init /\ [][NextThreads]_vars

\* ------------------------------------------------------- claims under Spec
\* the range of a sequence
Range(s) == {s[i] : i \in 1..Len(s)}

\* the chunks of ring r in circular order from cursor p (empty slots left out)
IsChunk(x) == x # None
FromCursor(r, p) == SelectSeq(PySlice(r, p, Len(r)) \o PySlice(r, 0, p), IsChunk)

\* a is b with some elements left out
RECURSIVE IsSubseq(_, _)
IsSubseq(a, b) ==
    IF a = <<>> THEN TRUE
    ELSE IF b = <<>> THEN FALSE
    ELSE IF Head(a) = Head(b) THEN IsSubseq(Tail(a), Tail(b))
    ELSE IsSubseq(a, Tail(b))

\* the last operation was a resize that ringSizeChanged applied
Resized == last.op = "ringSizeChanged" /\ last.applied
Grew == Resized /\ last.size > Len(last.ring0)
Shrank == Resized /\ last.size < Len(last.ring0)

\* C2: with whole iterations and whole resizes to sizes >= 1, a Worker's ring has
\* at least one slot and its cursor is an index of the ring
C2_LengthAndCursor ==
    thread # "none" => (Len(ring) >= 1 /\ 0 <= pring /\ pring < Len(ring))

\* C2's case: a shrink that took slots from the start of the ring and moved the
\* cursor back has happened
C2_Witness ==
    /\ Shrank
    /\ Len(last.ring0) - last.pring0 <= Len(last.ring0) - last.size
    /\ last.pring0 >= 1

\* C3: after an applied resize the ring has exactly the requested number of slots
C3_RequestedLength == Resized => Len(ring) = last.size

\* C4: a growing resize leaves the cursor where it was and the slot at the
\* cursor with its content
C4_GrowKeepsCursorSlot ==
    Grew => (pring = last.pring0 /\ ring[pring + 1] = last.ring0[last.pring0 + 1])

\* C5: a growing resize loses only what the slot at the cursor held, and after
\* any applied resize the chunks still in the ring are, read circularly from the
\* cursor, in the order they had before it
C5_SurvivorsKeepOrder ==
    /\ Grew => \A i \in 1..Len(last.ring0) :
                  (i # last.pring0 + 1 /\ last.ring0[i] # None)
                      => last.ring0[i] \in Range(ring)
    /\ Resized => IsSubseq(FromCursor(ring, pring),
                           FromCursor(last.ring0, last.pring0))

\* C5's case: a ring holding a chunk behind the cursor and one before it grew
C5_Witness ==
    /\ Grew
    /\ \E i \in 1..Len(last.ring0) : i > last.pring0 + 1 /\ last.ring0[i] # None
    /\ \E i \in 1..Len(last.ring0) : i < last.pring0 + 1 /\ last.ring0[i] # None

\* C6: a shrink removes the slots that follow the cursor, then the shortfall
\* from the start; the slot at the cursor stays and the cursor moves back by
\* the number of slots removed from the start
C6_ShrinkAfterCursor ==
    Shrank =>
        LET r0 == last.ring0
            p0 == last.pring0
            amount == Len(r0) - last.size
            after == Len(r0) - 1 - p0
            front == IF after >= amount THEN 0 ELSE amount - after
        IN  /\ ring = PySlice(r0, front, p0 + 1)
                        \o PySlice(r0, p0 + 1 + amount, Len(r0))
            /\ pring = p0 - front

\* C7: a request is applied exactly when none was applied during the 10 ms
\* before it
C7_AppliedIffNoneRecent ==
    last.op = "ringSizeChanged" => (last.applied <=> ~last.recent)

\* C8: the chunks played are in capture order, none twice
C8_PlayedInCaptureOrder ==
    /\ \A i \in 1..Len(played) : played[i] \in 1..captured
    /\ \A i, j \in 1..Len(played) : i < j => played[i] < played[j]

\* C8's case: an iteration plays a chunk, not the first one played, in a session
\* in which a resize has removed a captured chunk from the ring
C8_Witness ==
    /\ last.op = "genDAF"
    /\ last.out # None
    /\ lastApplied >= 0
    /\ Len(played) >= 2
    /\ captured > Len(played) + Cardinality(Range(ring) \ {None})


\* ------------------------------------------------ claims under SpecThreads
\* C1: the loop never indexes the ring outside its bounds, however a resize
\* interleaves with the iteration
C1_NoOutOfRangeAccess == thread # "IndexError"

\* C9: once _stopCapture has returned, the loop reads no chunk from the capture
\* stream and writes none to the playback stream
C9_NoStreamUseAfterStop == ~ioAfterStop

\* C10: the thread is never ended with a chunk played and its slot not yet
\* overwritten, nor with a slot overwritten and the cursor not yet advanced
C10_EndedBetweenIterations ==
    thread = "terminated" =>
        /\ pc # "L148"
        /\ ~(/\ pc \in {"L146", "L146s"}
             /\ played # <<>>
             /\ pring < Len(ring)
             /\ ring[pring + 1] = played[Len(played)])

\* ------------------------------------------------------- claims under Spec
\* C11: once the capture source has gone inactive and the loop has left at its
\* head, the engine is Idle again: a start is possible and no stop is pending
\* in the window.
C11_ExitLeavesIdle == (thread = "finished") => (startButton /\ ~stopButton)

\* C12 (as stated): every delay the loop emits covers one traversal of the
\* ring: the iterations from the one that recorded the timestamp to the one
\* that emits are as many as the ring has slots at the emission, resizes between
\* iterations included.
C12_OneTraversal ==
    (last.op = "genDAF" /\ last.emit) => last.iters = Len(ring)

\* C12 (amended): the same, for every emission whose measurement no resize has
\* moved the cursor of; a shrink that does not find enough slots after the
\* cursor puts the cursor back to 0 while the measurement goes on.
C12_OneTraversalUnlessMoved ==
    (last.op = "genDAF" /\ last.emit /\ ~last.moved) => last.iters = Len(ring)

C12_Witness ==
    /\ last.op = "genDAF" /\ last.emit /\ ~last.moved
    /\ last.resized
    /\ last.iters >= 3

\* ---------------------------------------------------- claims under SpecApp

\* C13: a ring size of 0 or less, asked for at the start of a session or
\* through a delay change, raises no error and leaves a ring of at least one
\* slot with the cursor inside it.
C13_NonPositiveSizeHarmless ==
    (last.op \in {"startCapture", "ringSizeChanged"} /\ last.size <= 0)
        => /\ last.err = ""
           /\ Len(ring) >= 1
           /\ pring \in 0..(Len(ring) - 1)

\* C14: a start that fails to open one of its streams launches no loop, leaves
\* start possible and stop disabled, and leaves no stream open.
C14_FailedStartLeavesNothing ==
    (last.op = "startFails")
        => /\ startButton /\ ~stopButton
           /\ ~strayStreams

\* C15: at most one thread runs the loop at any time.
C15_OneLoopLive ==
    (IF thread = "running" THEN 1 ELSE 0) + oldLive <= 1

\* C20: quit with no session ever started raises no error, leaves start enabled
\* and stop disabled, and ends the application.
C20_QuitWithoutSession ==
    (last.op = "quit" /\ thread = "none")
        => /\ last.err = ""
           /\ startButton /\ ~stopButton
           /\ app = "quit"

\* -------------------------------------------------- claims under SpecDelay

\* C16: for every delay of 50..200 ms the ring size computed is the floor of
\* ms * 441 / 1000.
C16_FloorOfProduct ==
    (last.op = "updateDelay")
        => last.size = (last.ms * (RATE \div BUFFERSIZE)) \div 1000

\* ------------------------------------------------------- claims under Spec

\* C17: a Worker made with ring size n >= 1 has a ring of n slots, all empty,
\* and cursor 0, whatever ring and cursor the Worker of the session before
\* has.
C17_FreshRing ==
    (last.op = "startCapture" /\ last.size >= 1)
        => /\ Len(ring) = last.size
           /\ ring = Nones(last.size)
           /\ pring = 0

\* a later session, started after one that was resized and holds chunks at a
\* cursor other than 0
C17_Witness ==
    /\ last.op = "startCapture"
    /\ last.size >= 2
    /\ last.pring0 > 0
    /\ Len(last.ring0) # last.size
    /\ last.resized
    /\ \E i \in 1..Len(last.ring0) : IsChunk(last.ring0[i])

\* C18: in a session whose ring of L slots is never resized, nothing is played
\* in the first L iterations, and iteration i + L plays the chunk captured in
\* iteration i: after k iterations the chunks played are 1..k-L in order, and
\* iteration k itself played chunk k-L.
C18_DelayOfOneRing ==
    (thread # "none" /\ lastApplied = -1)
        => /\ played = [i \in 1..(IF captured > Len(ring)
                                  THEN captured - Len(ring) ELSE 0) |-> i]
           /\ (last.op = "genDAF" /\ last.err = "")
                 => last.out = IF captured > Len(ring)
                               THEN captured - Len(ring) ELSE None

C18_Witness ==
    /\ lastApplied = -1
    /\ last.op = "genDAF"
    /\ Len(ring) >= 2
    /\ captured >= Len(ring) + 2
    /\ last.out = captured - Len(ring)

\* C19: between iterations, resizes to sizes >= 1 included, no chunk is in two
\* slots of the ring, no chunk that was played is still in a slot, and no chunk
\* was played twice.
C19_NoChunkTwice ==
    /\ \A i, j \in 1..Len(ring) : (i # j /\ IsChunk(ring[i])) => ring[i] # ring[j]
    /\ \A i \in 1..Len(ring) : \A j \in 1..Len(played) : ring[i] # played[j]
    /\ \A i, j \in 1..Len(played) : i # j => played[i] # played[j]

\* after a shrink of a ring that holds chunks, with chunks played and chunks
\* still waiting
C19_Witness ==
    /\ Shrank
    /\ Len(last.ring0) >= 3
    /\ Len(played) >= 2
    /\ Cardinality({i \in 1..Len(ring) : IsChunk(ring[i])}) >= 2

====
